---------------------------- MODULE Spec2Model ----------------------------
(***************************************************************************)
(* Spreadsheet-driven batch automation: SeleniumAutomation                 *)
(* (selenium_automation.py) driven either by the GUI worker thread         *)
(* (app_gui.py: _start_automation / _run_automation / _stop_automation)    *)
(* or by the console harness (test_automation.py: main).                   *)
(*                                                                         *)
(* One behaviour is one batch run: one press of the start button (or one   *)
(* call of the console main), the worker's walk through                    *)
(* processar_planilha, and any press of the stop button in between.        *)
(* The browser, the workbook file and the result dialogs are the           *)
(* environment: each of their operations succeeds or raises,               *)
(* nondeterministically, and every browser operation raises once the       *)
(* session has been quit.  The progress sink does not raise.               *)
(***************************************************************************)
EXTENDS Integers, Sequences, FiniteSets

(***************************************************************************)
(* Bounds                                                                  *)
(***************************************************************************)
\* largest number of data rows (header excluded) in the spreadsheet
MaxRows == 2

(***************************************************************************)
(* Cell values as openpyxl hands them over (values_only=True): None, a     *)
(* str (sequence of characters) or an int.                                 *)
(***************************************************************************)
NoneCell == [t |-> "none", s |-> << >>, n |-> 0]

StrCell(chars) == [t |-> "str", s |-> chars, n |-> 0]

IntCell(k) == [t |-> "int", s |-> << >>, n |-> k]

\* Python truth value of a cell: None, "" and 0 are false
Truthy(c) ==
  CASE c.t = "none" -> FALSE
    [] c.t = "str"  -> c.s # << >>
    [] c.t = "int"  -> c.n # 0

\* all([...]) over a sequence of cells
AllTruthy(cells) == \A i \in 1..Len(cells) : Truthy(cells[i])

Whitespace == {" "}

DigitChars == <<"0", "1", "2", "3", "4", "5", "6", "7", "8", "9">>

IsDigit(ch) == \E d \in 1..10 : DigitChars[d] = ch

DigitValue(ch) == (CHOOSE d \in 1..10 : DigitChars[d] = ch) - 1

RECURSIVE LStrip(_)
LStrip(s) ==
  IF s # << >> /\ Head(s) \in Whitespace THEN LStrip(Tail(s)) ELSE s

RECURSIVE RStrip(_)
RStrip(s) ==
  IF s # << >> /\ s[Len(s)] \in Whitespace
    THEN RStrip(SubSeq(s, 1, Len(s) - 1))
    ELSE s

\* str.strip()
Strip(s) == RStrip(LStrip(s))

RECURSIVE DigitsOf(_)
DigitsOf(k) ==
  IF k < 10 THEN <<DigitChars[k + 1]>>
            ELSE Append(DigitsOf(k \div 10), DigitChars[(k % 10) + 1])

\* str(value) of a cell
PyStr(c) ==
  CASE c.t = "none" -> <<"N", "o", "n", "e">>
    [] c.t = "str"  -> c.s
    [] c.t = "int"  -> DigitsOf(c.n)

RECURSIVE ParseDigits(_, _)
ParseDigits(s, acc) ==
  IF s = << >> THEN acc
               ELSE ParseDigits(Tail(s), 10 * acc + DigitValue(Head(s)))

\* int(value): an int is itself; a str is parsed after stripping and must
\* be a non-empty run of digits; anything else raises
PyInt(c) ==
  CASE c.t = "int" -> [ok |-> TRUE, v |-> c.n]
    [] c.t = "str" ->
         LET d == Strip(c.s) IN
           IF d # << >> /\ \A i \in 1..Len(d) : IsDigit(d[i])
             THEN [ok |-> TRUE, v |-> ParseDigits(d, 0)]
             ELSE [ok |-> FALSE, v |-> 0]
    [] c.t = "none" -> [ok |-> FALSE, v |-> 0]

(***************************************************************************)
(* The spreadsheet: a header line followed by at most MaxRows data rows.   *)
(* Every row carries its physical line number (the header is line 1); the  *)
(* program never reads that field, it is what the reported numbers are     *)
(* compared against.                                                       *)
(***************************************************************************)
ValidCells == <<StrCell(<<" ", "A">>), StrCell(<<"M">>), IntCell(2), StrCell(<<"L">>)>>

EmptyCells == <<NoneCell, NoneCell, NoneCell, NoneCell>>

ClienteCells == {NoneCell, StrCell(<<" ">>), StrCell(<<" ", "A">>)}

ProdutoCells == {NoneCell, StrCell(<<"M">>)}

QuantidadeCells == {NoneCell, IntCell(0), IntCell(2), StrCell(<<"x">>), StrCell(<<"1", "2">>)}

CategoriaCells == {NoneCell, StrCell(<<"L">>)}

\* rows that differ from a fully filled row in at most one cell, and the
\* empty row
RowDomain ==
  {EmptyCells}
  \cup {[ValidCells EXCEPT ![1] = c] : c \in ClienteCells}
  \cup {[ValidCells EXCEPT ![2] = c] : c \in ProdutoCells}
  \cup {[ValidCells EXCEPT ![3] = c] : c \in QuantidadeCells}
  \cup {[ValidCells EXCEPT ![4] = c] : c \in CategoriaCells}

HeaderCells == <<StrCell(<<"C">>), StrCell(<<"P">>), StrCell(<<"Q">>), StrCell(<<"K">>)>>

Sheets ==
  UNION {{[i \in 1..(k + 1) |->
             [line |-> i, cells |-> IF i = 1 THEN HeaderCells ELSE f[i - 1]]]
          : f \in [1..k -> RowDomain]} : k \in 0..MaxRows}


(***************************************************************************)
(* State                                                                   *)
(***************************************************************************)
VARIABLES
  caller,        \* "gui" (app_gui.py) or "console" (test_automation.py)
  sheet,         \* the workbook's active sheet, header included
  pc,            \* position of the thread that runs the batch
  driver,        \* SeleniumAutomation.driver: "none", "alive" or "quit"
  automation,    \* AutomationGUI.automation is set (not None)
  is_running,    \* AutomationGUI.is_running
  btn_start,     \* state of the start button
  btn_stop,      \* state of the stop button
  rows,          \* processar_planilha: rows
  index,         \* processar_planilha: index of the row last taken
  product,       \* processar_planilha: product being driven
  stats,         \* processar_planilha: stats
  calls,         \* history: operations asked of the browser and the workbook
  events,        \* history: events handed to the progress callback
  outcomes,      \* history: per-row outcomes, by physical line
  stop,          \* history: the stop that took effect, and where it fell
  fecharCalls,   \* history: invocations of fechar
  quitCalls,     \* history: invocations of driver.quit
  handlerRaised, \* history: the caller's result handling raised
  threads        \* worker threads started and not yet finished

vars == <<caller, sheet, pc, driver, automation, is_running, btn_start,
          btn_stop, rows, index, product, stats, calls, events, outcomes,
          stop, fecharCalls, quitCalls, handlerRaised, threads>>

guiVars == <<automation, is_running, btn_start, btn_stop, threads>>

batchVars == <<rows, index, product, stats, events, outcomes>>

NoProduct == [cliente |-> << >>, produto |-> << >>, quantidade |-> 0,
              categoria |-> << >>]

NoStop == [issued |-> FALSE, outcomes |-> 0, calls |-> 0, index |-> 0]

(***************************************************************************)
(* Helpers of processar_planilha                                           *)
(***************************************************************************)
EmptyStats == [total |-> 0, sucesso |-> 0, erro |-> 0,
               erros_detalhados |-> << >>]

MsgCamposVazios == "Campos obrigatorios vazios"

MsgIntInvalido == "invalid literal for int()"

MsgFalhaSubmeter == "Falha ao submeter"

CriticalLabel == StrCell(<<"ERRO CRITICO">>)

\* the messages of the progress events, with the numbers they carry
\* f"Acessando {self.url}"
TextoAcessando == [kind |-> "Acessando", a |-> 0, b |-> 0]

\* f"Iniciando processamento de {stats['total']} produtos"
TextoIniciando(st) == [kind |-> "Iniciando", a |-> st.total, b |-> 0]

\* f"Processando: {product.cliente} - {product.produto}"
TextoProcessando == [kind |-> "Processando", a |-> 0, b |-> 0]

\* f"Processamento concluido: {stats['sucesso']} sucesso, {stats['erro']} erros"
TextoConcluido(st) == [kind |-> "Concluido", a |-> st.sucesso, b |-> st.erro]

\* _report_progress: the callback receives (message, current, total)
ReportProgress(evs, message, current, total) ==
  Append(evs, [msg |-> message, current |-> current, total |-> total])

\* rows = list(ws.iter_rows(values_only=True))[1:]
SkipHeader(sh) == IF sh = << >> THEN << >> ELSE Tail(sh)

\* mutant: total counts only the rows whose first cell is not empty
TotalOfSemVazias(rs) ==
  Cardinality({i \in 1..Len(rs) : Truthy(rs[i].cells[1])})

\* stats["total"] = len(rows)
TotalOf(rs) == Len(rs)

\* if not row or not row[0]: continue
IsBlank(cells) == cells = << >> \/ ~Truthy(cells[1])

\* mutant: the header offset is forgotten
LinhaOfSemCabecalho(i) == i

\* "linha": index + 1
LinhaOf(i) == i + 1

\* mutant: the validation forgets the category cell
ParseRowSemCategoria(cells) ==
  IF ~AllTruthy(SubSeq(cells, 1, 3))
    THEN [ok |-> FALSE, erro |-> "Campos obrigatorios vazios",
          product |-> [cliente |-> << >>, produto |-> << >>, quantidade |-> 0,
                       categoria |-> << >>]]
    ELSE [ok |-> TRUE, erro |-> "",
          product |-> [cliente    |-> Strip(PyStr(cells[1])),
                       produto    |-> Strip(PyStr(cells[2])),
                       quantidade |-> PyInt(cells[3]).v,
                       categoria  |-> Strip(PyStr(cells[4]))]]

\* the body of the per-row try up to the construction of Product
ParseRow(cells) ==
  IF ~AllTruthy(SubSeq(cells, 1, 4))
    THEN [ok |-> FALSE, erro |-> MsgCamposVazios, product |-> NoProduct]
    ELSE IF ~PyInt(cells[3]).ok
      THEN [ok |-> FALSE, erro |-> MsgIntInvalido, product |-> NoProduct]
      ELSE [ok |-> TRUE, erro |-> "",
            product |-> [cliente    |-> Strip(PyStr(cells[1])),
                         produto    |-> Strip(PyStr(cells[2])),
                         quantidade |-> PyInt(cells[3]).v,
                         categoria  |-> Strip(PyStr(cells[4]))]]

\* mutant: the entry is appended and the counter forgotten
RegistrarErroSemContar(st, linha, label, msg) ==
  [st EXCEPT !.erros_detalhados =
                Append(@, [linha |-> linha, produto |-> label, erro |-> msg])]

\* stats["erro"] += 1; stats["erros_detalhados"].append({...})
RegistrarErro(st, linha, label, msg) ==
  [st EXCEPT !.erro = @ + 1,
             !.erros_detalhados =
                Append(@, [linha |-> linha, produto |-> label, erro |-> msg])]

\* mutant: a submitted product is not counted
RegistrarSucessoEsquece(st) == st

\* stats["sucesso"] += 1
RegistrarSucesso(st) == [st EXCEPT !.sucesso = @ + 1]

\* the outer except: the error is logged and appended with linha 0
ErroCritico(st, msg) ==
  [st EXCEPT !.erros_detalhados =
                Append(@, [linha |-> 0, produto |-> CriticalLabel, erro |-> msg])]

\* mutant: no outer except, the exception leaves processar_planilha
CapturaCriticaPropaga(st, msg) == [pc |-> "raised", stats |-> st]

\* an exception in navigate / load_workbook reaches the outer except, and
\* the function goes on to return stats
CapturaCritica(st, msg) == [pc |-> "returned", stats |-> ErroCritico(st, msg)]

\* mutant: a failed product is recorded and driven again
FalhaNoProdutoRepete(st, i, cells) ==
  [pc |-> "limpar",
   stats |-> [st EXCEPT !.erro = @ + 1,
                        !.erros_detalhados =
                           Append(@, [linha |-> i + 1, produto |-> cells[2],
                                      erro |-> "Falha ao submeter"])]]

\* mutant: the failure of one product ends the batch through the outer
\* except
FalhaNoProdutoAborta(st, i, cells) ==
  [pc |-> "returned", stats |-> ErroCritico(st, "Falha ao submeter")]

\* preencher_produto returned False: the row is a failure and the for loop
\* goes on
FalhaNoProduto(st, i, cells) ==
  [pc |-> "loop",
   stats |-> RegistrarErro(st, LinhaOf(i), cells[2], MsgFalhaSubmeter)]

\* the per-row except: the row is a failure and the for loop goes on
FalhaNaLinha(st, i, cells, msg) ==
  [pc |-> "loop", stats |-> RegistrarErro(st, LinhaOf(i), cells[2], msg)]

\* fechar: if self.driver: self.driver.quit()   (driver is never reset)
FecharDriver(d) == IF d # "none" THEN "quit" ELSE d

FecharQuits(d) == IF d # "none" THEN 1 ELSE 0

\* a browser operation can succeed only while the session is alive
CanBe(ok) == ok => driver = "alive"

LogCall(op, line, ok) == Append(calls, [op |-> op, line |-> line, ok |-> ok])

IsGui == caller = "gui"

(***************************************************************************)
(* Initial state                                                           *)
(***************************************************************************)
Init ==
  /\ caller \in {"gui", "console"}
  /\ sheet \in Sheets
  /\ pc = "idle"
  /\ driver = "none"
  /\ automation = FALSE
  /\ is_running = FALSE
  /\ btn_start = "normal"
  /\ btn_stop = "disabled"
  /\ rows = << >>
  /\ index = 0
  /\ product = NoProduct
  /\ stats = EmptyStats
  /\ calls = << >>
  /\ events = << >>
  /\ outcomes = << >>
  /\ stop = NoStop
  /\ fecharCalls = 0
  /\ quitCalls = 0
  /\ handlerRaised = FALSE
  /\ threads = 0

(***************************************************************************)
(* The callers up to the call of processar_planilha                        *)
(***************************************************************************)
\* AutomationGUI._start_automation (a file has been selected and exists):
\* the buttons flip and the worker thread starts
StartAutomation ==
  /\ IsGui
  /\ pc = "idle"
  /\ btn_start = "normal"
  /\ is_running' = TRUE
  /\ btn_start' = "disabled"
  /\ btn_stop' = "normal"
  /\ threads' = threads + 1
  /\ pc' = "ctor"
  /\ UNCHANGED <<caller, sheet, driver, automation, calls, stop, fecharCalls,
                 quitCalls, handlerRaised>>
  /\ UNCHANGED batchVars

\* _start_automation pressed again after a stop re-enabled the start
\* button: a further worker thread is started (its own walk through
\* _run_automation is not followed)
StartAgain ==
  /\ IsGui
  /\ pc # "idle"
  /\ btn_start = "normal"
  /\ is_running' = TRUE
  /\ btn_start' = "disabled"
  /\ btn_stop' = "normal"
  /\ threads' = threads + 1
  /\ UNCHANGED <<caller, sheet, pc, driver, automation, calls, stop,
                 fecharCalls, quitCalls, handlerRaised>>
  /\ UNCHANGED batchVars

\* test_automation.main up to the with statement
ConsoleMain ==
  /\ ~IsGui
  /\ pc = "idle"
  /\ pc' = "ctor"
  /\ UNCHANGED <<caller, sheet, driver, calls, stop, fecharCalls, quitCalls,
                 handlerRaised>>
  /\ UNCHANGED guiVars
  /\ UNCHANGED batchVars

\* SeleniumAutomation(...): _init_driver starts the browser session, or
\* raises and no object exists; the GUI then stores the object in
\* self.automation
InitDriver(ok) ==
  /\ pc = "ctor"
  /\ IF ok
       THEN /\ driver' = "alive"
            /\ automation' = IsGui
            /\ pc' = "navigate"
       ELSE /\ driver' = driver
            /\ automation' = automation
            /\ pc' = IF IsGui THEN "outer_finally" ELSE "done"
  /\ UNCHANGED <<caller, sheet, is_running, btn_start, btn_stop, calls, stop,
                 fecharCalls, quitCalls, handlerRaised, threads>>
  /\ UNCHANGED batchVars

(***************************************************************************)
(* processar_planilha                                                      *)
(***************************************************************************)
\* self.navigate(): progress event, then driver.get(url)
Navigate(ok) ==
  /\ pc = "navigate"
  /\ CanBe(ok)
  /\ events' = ReportProgress(events, TextoAcessando, 0, 0)
  /\ calls' = LogCall("navigate", 0, ok)
  /\ IF ok
       THEN /\ pc' = "load"
            /\ stats' = stats
       ELSE /\ pc' = CapturaCritica(stats, "navigate").pc
            /\ stats' = CapturaCritica(stats, "navigate").stats
  /\ UNCHANGED <<caller, sheet, driver, rows, index, product, outcomes, stop,
                 fecharCalls, quitCalls, handlerRaised>>
  /\ UNCHANGED guiVars

\* openpyxl.load_workbook(filepath) ... self._report_progress("Iniciando")
LoadWorkbook(ok) ==
  /\ pc = "load"
  /\ calls' = LogCall("load_workbook", 0, ok)
  /\ IF ok
       THEN /\ rows' = SkipHeader(sheet)
            /\ stats' = [stats EXCEPT !.total = TotalOf(SkipHeader(sheet))]
            /\ events' = ReportProgress(events,
                         TextoIniciando([stats EXCEPT
                            !.total = TotalOf(SkipHeader(sheet))]), 0, 0)
            /\ pc' = "loop"
       ELSE /\ rows' = rows
            /\ events' = events
            /\ pc' = CapturaCritica(stats, "load_workbook").pc
            /\ stats' = CapturaCritica(stats, "load_workbook").stats
  /\ UNCHANGED <<caller, sheet, driver, index, product, outcomes, stop,
                 fecharCalls, quitCalls, handlerRaised>>
  /\ UNCHANGED guiVars

\* for index, row in enumerate(rows, 1): a blank row is skipped
PularLinhaVazia ==
  /\ pc = "loop"
  /\ index < Len(rows)
  /\ IsBlank(rows[index + 1].cells)
  /\ index' = index + 1
  /\ UNCHANGED <<caller, sheet, pc, driver, rows, product, stats, calls,
                 events, outcomes, stop, fecharCalls, quitCalls,
                 handlerRaised>>
  /\ UNCHANGED guiVars

\* a row that fails validation or the int() coercion: the per-row except
LinhaComErro ==
  /\ pc = "loop"
  /\ index < Len(rows)
  /\ LET row == rows[index + 1] IN
       /\ ~IsBlank(row.cells)
       /\ ~ParseRow(row.cells).ok
       /\ index' = index + 1
       /\ pc' = FalhaNaLinha(stats, index + 1, row.cells,
                             ParseRow(row.cells).erro).pc
       /\ stats' = FalhaNaLinha(stats, index + 1, row.cells,
                                ParseRow(row.cells).erro).stats
       /\ outcomes' = Append(outcomes, [line |-> row.line, result |-> "erro"])
  /\ UNCHANGED <<caller, sheet, driver, rows, product, calls, events, stop,
                 fecharCalls, quitCalls, handlerRaised>>
  /\ UNCHANGED guiVars

\* a row that yields a Product: progress event, then preencher_produto
IniciarProduto ==
  /\ pc = "loop"
  /\ index < Len(rows)
  /\ LET row == rows[index + 1] IN
       /\ ~IsBlank(row.cells)
       /\ ParseRow(row.cells).ok
       /\ index' = index + 1
       /\ product' = ParseRow(row.cells).product
       /\ events' = ReportProgress(events, TextoProcessando, index + 1,
                                   stats.total)
       /\ pc' = "limpar"
  /\ UNCHANGED <<caller, sheet, driver, rows, stats, calls, outcomes, stop,
                 fecharCalls, quitCalls, handlerRaised>>
  /\ UNCHANGED guiVars

\* mutant: the function returns without the final progress event
ConcluirSemEvento ==
  /\ pc = "loop"
  /\ index = Len(rows)
  /\ pc' = "returned"
  /\ UNCHANGED <<caller, sheet, driver, rows, index, product, stats, calls,
                 events, outcomes, stop, fecharCalls, quitCalls,
                 handlerRaised>>
  /\ UNCHANGED guiVars

\* the loop is exhausted: final progress event and return stats
Concluir ==
  /\ pc = "loop"
  /\ index = Len(rows)
  /\ events' = ReportProgress(events, TextoConcluido(stats), 0, 0)
  /\ pc' = "returned"
  /\ UNCHANGED <<caller, sheet, driver, rows, index, product, stats, calls,
                 outcomes, stop, fecharCalls, quitCalls, handlerRaised>>
  /\ UNCHANGED guiVars

(***************************************************************************)
(* preencher_produto: one browser operation per step                       *)
(***************************************************************************)
\* mutant: the category is never selected
NextStepSemCategoria(step) ==
  CASE step = "limpar"     -> "cliente"
    [] step = "cliente"    -> "produto"
    [] step = "produto"    -> "quantidade"
    [] step = "quantidade" -> "submit"
    [] step = "categoria"  -> "submit"

\* what follows a field of the form
NextStep(step) ==
  CASE step = "limpar"     -> "cliente"
    [] step = "cliente"    -> "produto"
    [] step = "produto"    -> "quantidade"
    [] step = "quantidade" -> "categoria"
    [] step = "categoria"  -> "submit"

\* the operation raised: preencher_produto returns False
ProdutoFalhou ==
  /\ pc' = FalhaNoProduto(stats, index, rows[index].cells).pc
  /\ stats' = FalhaNoProduto(stats, index, rows[index].cells).stats
  /\ outcomes' = Append(outcomes, [line |-> rows[index].line,
                                   result |-> "erro"])
  /\ product' = NoProduct

\* mutant: a failed clear fails the product like any other operation
LimparFormFatal(ok) ==
  /\ pc = "limpar"
  /\ CanBe(ok)
  /\ calls' = LogCall("limpar", rows[index].line, ok)
  /\ IF ok
       THEN /\ pc' = "cliente"
            /\ UNCHANGED <<stats, outcomes, product>>
       ELSE ProdutoFalhou
  /\ UNCHANGED <<caller, sheet, driver, rows, index, events, stop,
                 fecharCalls, quitCalls, handlerRaised>>
  /\ UNCHANGED guiVars

\* _limpar_form: a failure is logged and swallowed
LimparForm(ok) ==
  /\ pc = "limpar"
  /\ CanBe(ok)
  /\ calls' = LogCall("limpar", rows[index].line, ok)
  /\ pc' = NextStep("limpar")
  /\ UNCHANGED <<caller, sheet, driver, stop, fecharCalls, quitCalls,
                 handlerRaised>>
  /\ UNCHANGED guiVars
  /\ UNCHANGED batchVars

\* _fill_campo_texto(field_id, value) for cliente, produto, quantidade
FillCampoTexto(field, ok) ==
  /\ pc = field
  /\ CanBe(ok)
  /\ calls' = LogCall(field, rows[index].line, ok)
  /\ IF ok
       THEN /\ pc' = NextStep(field)
            /\ UNCHANGED <<stats, outcomes, product>>
       ELSE ProdutoFalhou
  /\ UNCHANGED <<caller, sheet, driver, rows, index, events, stop,
                 fecharCalls, quitCalls, handlerRaised>>
  /\ UNCHANGED guiVars

\* _select_categoria(product.categoria)
SelectCategoria(ok) ==
  /\ pc = "categoria"
  /\ CanBe(ok)
  /\ calls' = LogCall("categoria", rows[index].line, ok)
  /\ IF ok
       THEN /\ pc' = NextStep("categoria")
            /\ UNCHANGED <<stats, outcomes, product>>
       ELSE ProdutoFalhou
  /\ UNCHANGED <<caller, sheet, driver, rows, index, events, stop,
                 fecharCalls, quitCalls, handlerRaised>>
  /\ UNCHANGED guiVars

\* _submit_form(); on success preencher_produto returns True
SubmitForm(ok) ==
  /\ pc = "submit"
  /\ CanBe(ok)
  /\ calls' = LogCall("submit", rows[index].line, ok)
  /\ IF ok
       THEN /\ pc' = "loop"
            /\ stats' = RegistrarSucesso(stats)
            /\ outcomes' = Append(outcomes, [line |-> rows[index].line,
                                             result |-> "sucesso"])
            /\ product' = NoProduct
       ELSE ProdutoFalhou
  /\ UNCHANGED <<caller, sheet, driver, rows, index, events, stop,
                 fecharCalls, quitCalls, handlerRaised>>
  /\ UNCHANGED guiVars

(***************************************************************************)
(* The callers after processar_planilha                                    *)
(***************************************************************************)
\* mutant: fechar at the end of the try body, not in a finally
AfterResultSemFinally(raised) == IF raised THEN "outer_finally" ELSE "finally"

\* where the caller goes when its handling of the result is over, raised
\* or not: both callers release in a finally / __exit__
AfterResult(raised) == "finally"

\* the caller logs / prints the stats and shows the dialog; any of it may
\* raise
TratarResultado(ok) ==
  /\ pc \in {"returned", "raised"}
  /\ pc = "raised" => ~ok
  /\ handlerRaised' = ~ok
  /\ pc' = AfterResult(~ok)
  /\ UNCHANGED <<caller, sheet, driver, calls, stop, fecharCalls, quitCalls>>
  /\ UNCHANGED guiVars
  /\ UNCHANGED batchVars

\* finally: automation.fechar(); self.automation = None   (GUI)
\* __exit__: self.fechar()                                 (console)
FinallyFechar ==
  /\ pc = "finally"
  /\ driver' = FecharDriver(driver)
  /\ quitCalls' = quitCalls + FecharQuits(driver)
  /\ fecharCalls' = fecharCalls + 1
  /\ automation' = FALSE
  /\ pc' = IF IsGui THEN "outer_finally" ELSE "done"
  /\ UNCHANGED <<caller, sheet, is_running, btn_start, btn_stop, calls, stop,
                 handlerRaised, threads>>
  /\ UNCHANGED batchVars

\* the outer finally of _run_automation: is_running and the buttons reset
OuterFinally ==
  /\ pc = "outer_finally"
  /\ is_running' = FALSE
  /\ btn_start' = "normal"
  /\ btn_stop' = "disabled"
  /\ threads' = threads - 1
  /\ pc' = "done"
  /\ UNCHANGED <<caller, sheet, driver, automation, calls, stop, fecharCalls,
                 quitCalls, handlerRaised>>
  /\ UNCHANGED batchVars

\* AutomationGUI._stop_automation, on the main thread, while the stop
\* button is enabled; with self.automation None it does nothing
StopAutomation ==
  /\ IsGui
  /\ btn_stop = "normal"
  /\ automation
  /\ driver' = FecharDriver(driver)
  /\ quitCalls' = quitCalls + FecharQuits(driver)
  /\ fecharCalls' = fecharCalls + 1
  /\ automation' = FALSE
  /\ is_running' = FALSE
  /\ btn_start' = "normal"
  /\ btn_stop' = "disabled"
  /\ stop' = [issued |-> TRUE, outcomes |-> Len(outcomes),
              calls |-> Len(calls), index |-> index]
  /\ UNCHANGED <<caller, sheet, pc, calls, handlerRaised, threads>>
  /\ UNCHANGED batchVars

TextFields == {"cliente", "produto", "quantidade"}

Next ==
  \/ StartAutomation
  \/ ConsoleMain
  \/ \E ok \in BOOLEAN : InitDriver(ok)
  \/ \E ok \in BOOLEAN : Navigate(ok)
  \/ \E ok \in BOOLEAN : LoadWorkbook(ok)
  \/ PularLinhaVazia
  \/ LinhaComErro
  \/ IniciarProduto
  \/ Concluir
  \/ \E ok \in BOOLEAN : LimparForm(ok)
  \/ \E f \in TextFields, ok \in BOOLEAN : FillCampoTexto(f, ok)
  \/ \E ok \in BOOLEAN : SelectCategoria(ok)
  \/ \E ok \in BOOLEAN : SubmitForm(ok)
  \/ \E ok \in BOOLEAN : TratarResultado(ok)
  \/ FinallyFechar
  \/ OuterFinally
  \/ StopAutomation

Spec == Init /\ [][Next]_vars

\* the GUI with the start button pressed whenever it is enabled
NextGui == Next \/ StartAgain

SpecGui == Init /\ [][NextGui]_vars

TypeOK ==
  /\ pc \in {"idle", "ctor", "navigate", "load", "loop", "limpar", "cliente",
             "produto", "quantidade", "categoria", "submit", "returned",
             "raised", "finally", "outer_finally", "done"}
  /\ driver \in {"none", "alive", "quit"}
  /\ index \in 0..Len(rows)
  /\ fecharCalls \in 0..2

(***************************************************************************)
(* Vocabulary of the properties                                            *)
(***************************************************************************)
Entries == stats.erros_detalhados

\* physical lines of the data rows
DataLines == 2..Len(sheet)

DriveOps == {"cliente", "produto", "quantidade", "categoria", "submit"}

FormOps == DriveOps \cup {"limpar"}

CallFailed(op) == \E i \in 1..Len(calls) : calls[i].op = op /\ ~calls[i].ok

\* the workbook was read: the loop has its rows
Loaded == \E i \in 1..Len(calls) : calls[i].op = "load_workbook" /\ calls[i].ok

\* lines of the rows on which a fill, select or submit raised
FailedDriveLines ==
  {calls[i].line : i \in {j \in 1..Len(calls) :
                             calls[j].op \in DriveOps /\ ~calls[j].ok}}

\* lines of the rows on which any form operation, clear included, raised
FailedFormLines ==
  {calls[i].line : i \in {j \in 1..Len(calls) :
                             calls[j].op \in FormOps /\ ~calls[j].ok}}

\* lines of the rows the browser was asked anything for
DrivenLines ==
  {calls[i].line : i \in {j \in 1..Len(calls) : calls[j].op \in FormOps}}

OutcomeLines == {outcomes[i].line : i \in 1..Len(outcomes)}

SuccessLines ==
  {outcomes[i].line : i \in {j \in 1..Len(outcomes) :
                                outcomes[j].result = "sucesso"}}

EntriesAt(linha) == {i \in 1..Len(Entries) : Entries[i].linha = linha}

\* a required cell is missing
Missing(c) == c.t = "none" \/ (c.t = "str" /\ c.s = << >>)

HasMissingCell(cells) == \E j \in 1..4 : Missing(cells[j])

\* the loop has dealt with the row of physical line L
Handled(L) == Loaded /\ (L - 1 < index \/ (L - 1 = index /\ pc = "loop")
                         \/ pc \in {"returned", "finally", "outer_finally",
                                    "done"})

IsRowEntry(e) == e.linha # 0

IsFailure(o) == o.result = "erro"

RowEntries == SelectSeq(Entries, IsRowEntry)

FailedOutcomes == SelectSeq(outcomes, IsFailure)

\* rows not reached when processar_planilha returns
Unprocessed == Len(rows) - index

(***************************************************************************)
(* C1  Per-record isolation.  When processar_planilha returns, every row   *)
(* on which a fill, select or submit raised has exactly one failure entry, *)
(* every later non-blank row has an outcome (and was driven if it yields a *)
(* Product), and total is still the number of rows read.                   *)
(***************************************************************************)
C1_PerRecordIsolation ==
  pc = "returned" =>
    \A L \in FailedDriveLines :
      /\ Cardinality(EntriesAt(L)) = 1
      /\ \A M \in (L + 1)..Len(sheet) :
           ~IsBlank(sheet[M].cells) =>
             /\ M \in OutcomeLines
             /\ ParseRow(sheet[M].cells).ok => M \in DrivenLines
      /\ stats.total = Len(sheet) - 1

\* a row failed in the browser and a later row was submitted, no stop
C1_Witness ==
  /\ pc = "returned"
  /\ ~stop.issued
  /\ \E L \in FailedDriveLines : \E M \in SuccessLines : M > L

(***************************************************************************)
(* C2  Stats accounting.  When processar_planilha returns,                 *)
(* sucesso + erro + unprocessed = total.                                   *)
(***************************************************************************)
C2_StatsAccounting ==
  pc = "returned" => stats.sucesso + stats.erro + Unprocessed = stats.total

(***************************************************************************)
(* C3  processar_planilha never raises, and every failure of navigation,   *)
(* of reading the workbook, of validating a row or of a fill, select or    *)
(* submit is a failure entry of the stats it returns.                      *)
(***************************************************************************)
CapturedAtReturn(lines) ==
  /\ (CallFailed("navigate") \/ CallFailed("load_workbook"))
       => EntriesAt(0) # {}
  /\ \A L \in lines : EntriesAt(L) # {}
  /\ \A L \in DataLines :
       (Loaded /\ ~IsBlank(sheet[L].cells) /\ ~ParseRow(sheet[L].cells).ok)
         => EntriesAt(L) # {}

C3_NeverRaises ==
  /\ pc # "raised"
  /\ pc = "returned" => CapturedAtReturn(FailedDriveLines)

\* C3 as first stated: a failure of any form operation, clear included, is
\* a failure entry
C3_AnyOperationCaptured ==
  /\ pc # "raised"
  /\ pc = "returned" => CapturedAtReturn(FailedFormLines)

\* returned after a row failed in the browser and another failed validation
C3_Witness ==
  /\ pc = "returned"
  /\ FailedDriveLines # {}
  /\ \E L \in DataLines : ~IsBlank(sheet[L].cells) /\ ~ParseRow(sheet[L].cells).ok
  /\ Len(Entries) = 2

(***************************************************************************)
(* C4  Critical failure.  If navigation fails, processar_planilha returns  *)
(* total = 0, erro = 1, sucesso = 0 and exactly one entry, of linha 0, and *)
(* no clear, fill, select or submit was asked of the browser.              *)
(***************************************************************************)
C4_CriticalFailure ==
  (pc = "returned" /\ CallFailed("navigate")) =>
    /\ stats.total = 0
    /\ stats.erro = 1
    /\ stats.sucesso = 0
    /\ Len(Entries) = 1
    /\ Entries[1].linha = 0
    /\ DrivenLines = {}

(***************************************************************************)
(* C5  Validation failure.  Every non-blank row with a missing required    *)
(* cell that the loop has dealt with has exactly one failure entry, whose  *)
(* reason is the missing-field message, and the browser was asked nothing  *)
(* for it; at the return every row has been dealt with.                    *)
(***************************************************************************)
C5_ValidationFailure ==
  /\ \A L \in DataLines :
       (Handled(L) /\ ~IsBlank(sheet[L].cells) /\ HasMissingCell(sheet[L].cells))
         => /\ Cardinality(EntriesAt(L)) = 1
            /\ \A i \in EntriesAt(L) : Entries[i].erro = MsgCamposVazios
            /\ L \notin DrivenLines
  /\ (pc = "returned" /\ Loaded) => index = Len(sheet) - 1

\* a row with a missing cell was recorded and a later row was submitted
C5_Witness ==
  /\ pc = "returned"
  /\ \E L \in DataLines :
       /\ ~IsBlank(sheet[L].cells)
       /\ HasMissingCell(sheet[L].cells)
       /\ EntriesAt(L) # {}
       /\ \E M \in SuccessLines : M > L

(***************************************************************************)
(* C6  Cancellation stops the batch.  After a stop that fell when k rows   *)
(* had their outcome, no fill, select or submit is asked for a later row   *)
(* and processar_planilha returns sucesso + erro = k.                      *)
(***************************************************************************)
C6_CancellationStops ==
  (pc = "returned" /\ stop.issued) =>
    /\ stats.sucesso + stats.erro = stop.outcomes
    /\ \A i \in (stop.calls + 1)..Len(calls) :
         calls[i].op \in DriveOps => calls[i].line <= LinhaOf(stop.index)
    /\ Loaded => stats.total = Len(sheet) - 1

(***************************************************************************)
(* C7  Guaranteed release.  When the caller's run is over and a browser    *)
(* session was created, fechar has been invoked and the session is quit.   *)
(***************************************************************************)
C7_GuaranteedRelease ==
  (pc = "done" /\ driver # "none") => (fecharCalls >= 1 /\ driver = "quit")

\* the run is over after the result handling raised, with no stop
C7_Witness ==
  /\ pc = "done"
  /\ handlerRaised
  /\ ~stop.issued
  /\ driver = "quit"

(***************************************************************************)
(* C8  In a run cancelled by the stop button, fechar is invoked exactly    *)
(* once over the whole run.                                                *)
(***************************************************************************)
C8_ReleaseOnce ==
  (pc = "done" /\ stop.issued) => fecharCalls = 1

(***************************************************************************)
(* C9  Blank rows are excluded from total: total is the number of data     *)
(* rows whose first cell is non-empty.                                     *)
(***************************************************************************)
C9_BlankRowsExcluded ==
  (pc = "returned" /\ Loaded) =>
    stats.total = Cardinality({L \in DataLines : ~IsBlank(sheet[L].cells)})

(***************************************************************************)
(* C10  Reported row numbers.  The failure entries of data rows are, in    *)
(* order, the failed rows, each with linha equal to the row's physical     *)
(* line; and N rows that all yield a Product but the second, whose         *)
(* category is empty, with a browser that never fails, give                *)
(* sucesso = N - 1, erro = 1 and a first entry at the second row's line.   *)
(***************************************************************************)
SecondRowInvalid ==
  /\ Len(sheet) >= 3
  /\ sheet[3].cells = [ValidCells EXCEPT ![4] = NoneCell]
  /\ \A L \in DataLines \ {3} : sheet[L].cells = ValidCells
  /\ \A i \in 1..Len(calls) : calls[i].ok

C10_RowNumbers ==
  /\ LET re == RowEntries
         fo == FailedOutcomes
     IN /\ Len(re) = Len(fo)
        /\ \A i \in 1..Len(re) : re[i].linha = fo[i].line
  /\ (pc = "returned" /\ SecondRowInvalid) =>
       /\ stats.sucesso = Len(sheet) - 2
       /\ stats.erro = 1
       /\ Entries[1].linha = sheet[3].line

\* the scenario has run: one entry, for the second data row
C10_Witness ==
  /\ pc = "returned"
  /\ SecondRowInvalid
  /\ Loaded
  /\ Len(Entries) = 1

(***************************************************************************)
(* C11  All-success run.  N valid rows and a browser whose every operation *)
(* succeeds give sucesso = N, erro = 0, no failure entry and exactly N     *)
(* submits, the i-th one closing the clear, fills and select of row i.     *)
(***************************************************************************)
\* a valid row: the four cells present, the texts not blank, the quantity
\* an integer
ValidRow(cells) ==
  /\ AllTruthy(SubSeq(cells, 1, 4))
  /\ \A j \in {1, 2, 4} : cells[j].t = "str" /\ Strip(cells[j].s) # << >>
  /\ PyInt(cells[3]).ok

Protocol == <<"limpar", "cliente", "produto", "quantidade", "categoria",
              "submit">>

AllRowsValid == \A L \in DataLines : ValidRow(sheet[L].cells)

AllCallsOk == \A i \in 1..Len(calls) : calls[i].ok

SubmitCalls == {i \in 1..Len(calls) : calls[i].op = "submit"}

DriveSteps == {"limpar", "cliente", "produto", "quantidade", "categoria",
               "submit"}

BlankText(c) == c.t = "none" \/ (c.t = "str" /\ Strip(c.s) = << >>)

BreaksRecordInvariant(cells) ==
  \/ \E j \in {1, 2, 4} : BlankText(cells[j])
  \/ ~PyInt(cells[3]).ok

C12_RecordInvariant ==
  /\ pc \in DriveSteps =>
       /\ Strip(product.cliente) # << >>
       /\ Strip(product.produto) # << >>
       /\ Strip(product.categoria) # << >>
  /\ \A L \in DataLines :
       (Handled(L) /\ ~IsBlank(sheet[L].cells)
          /\ BreaksRecordInvariant(sheet[L].cells))
         => (L \notin DrivenLines /\ EntriesAt(L) # {})

(***************************************************************************)
(* C13  The failure entry of a row on which a fill, select or submit       *)
(* raised carries the message of that exception as its reason.             *)
(***************************************************************************)
\* the message of the exception an operation raises names the operation
ExceptionMessage(op) == op

C13_UnderlyingReason ==
  \A i \in 1..Len(calls) :
    (calls[i].op \in DriveOps /\ ~calls[i].ok) =>
      \A e \in EntriesAt(calls[i].line) :
        Entries[e].erro = ExceptionMessage(calls[i].op)

(***************************************************************************)
(* C14  fechar is idempotent: however often it is invoked, the session is  *)
(* left released and the underlying session is torn down (driver.quit)     *)
(* no more than once.                                                      *)
(***************************************************************************)
C14_ReleaseIdempotent ==
  /\ fecharCalls >= 1 => driver = "quit"
  /\ quitCalls <= 1

(***************************************************************************)
(* C15  Clear-form failures are non-fatal.  After a failed clear the fill  *)
(* of the customer field of the same row is what comes next; a row whose   *)
(* only failure is the clear has no failure entry, and is a success once   *)
(* its submit went through.                                                *)
(***************************************************************************)
FailedClears == {i \in 1..Len(calls) : calls[i].op = "limpar" /\ ~calls[i].ok}

C15_ClearNonFatal ==
  \A i \in FailedClears :
    LET L == calls[i].line IN
      /\ IF i = Len(calls)
           THEN pc = "cliente" /\ rows[index].line = L
           ELSE calls[i + 1].op = "cliente" /\ calls[i + 1].line = L
      /\ L \notin FailedDriveLines => EntriesAt(L) = {}
      /\ (\E j \in 1..Len(calls) :
            calls[j].op = "submit" /\ calls[j].line = L /\ calls[j].ok)
           => L \in SuccessLines

\* a row whose clear failed was submitted and counted as a success
C15_Witness ==
  /\ pc = "returned"
  /\ \E i \in FailedClears : calls[i].line \in SuccessLines
  /\ stats.erro = 0

(***************************************************************************)
(* C16  Drive protocol order.  The operations asked for one row are a      *)
(* prefix of clear, fill customer, fill item, fill quantity, select        *)
(* category, submit; a fill, select or submit that raised is the last one  *)
(* of its row, and a row with an outcome has either all six or ends in the *)
(* one that raised; and the rows are driven one after the other.           *)
(***************************************************************************)
IsFormCall(c) == c.op \in FormOps

FormCalls == SelectSeq(calls, IsFormCall)

CallsOf(L) == LET OfLine(c) == c.line = L IN SelectSeq(FormCalls, OfLine)

C16_ProtocolOrder ==
  LET fc == FormCalls IN
    /\ \A L \in DrivenLines :
         LET OfLine(c) == c.line = L
             cs == SelectSeq(fc, OfLine)
             n == Len(cs)
         IN
           /\ n <= 6
           /\ \A k \in 1..n :
                /\ cs[k].op = Protocol[k]
                /\ (k > 1 /\ k < n) => cs[k].ok
           /\ L \in OutcomeLines => (n = 6 \/ ~cs[n].ok)
           /\ (n = 6 /\ cs[6].ok) => L \in SuccessLines
    /\ \A i \in 1..(Len(fc) - 1) : fc[i].line <= fc[i + 1].line

\* two rows were driven, the first cut at its select, the second to the end
C16_Witness ==
  /\ pc = "returned"
  /\ Len(CallsOf(2)) = 5
  /\ Len(CallsOf(3)) = 6

(***************************************************************************)
(* C17  No retry.  Every row has at most one outcome, every operation is   *)
(* asked at most once for a row (so at most one submit per row), and a row *)
(* that has its outcome is not driven again.                               *)
(***************************************************************************)
C17_NoRetry ==
  /\ \A i \in 1..Len(outcomes) : \A j \in (i + 1)..Len(outcomes) :
       outcomes[i].line < outcomes[j].line
  /\ \A L \in DataLines :
       LET cs == CallsOf(L) IN
         \A i \in 1..Len(cs) : \A j \in (i + 1)..Len(cs) : cs[i].op # cs[j].op
  /\ pc \in DriveSteps => rows[index].line \notin OutcomeLines
  /\ Len(outcomes) = stats.sucesso + stats.erro

\* a row failed in the browser, the next row was driven, the failed one
\* was not driven again
C17_Witness ==
  /\ pc = "returned"
  /\ 2 \in FailedDriveLines
  /\ 3 \in DrivenLines
  /\ Len(outcomes) = 2

(***************************************************************************)
(* C18  Progress event ordering.  In a run whose navigation and workbook   *)
(* read succeed, one event announces the total, right after the navigation *)
(* event and before any per-row event or form operation; and one final     *)
(* event carries the final sucesso and erro, as the last event, after the  *)
(* last outcome and before the stats are returned.                         *)
(***************************************************************************)
EventsOf(kind) == {i \in 1..Len(events) : events[i].msg.kind = kind}

NavigationOk ==
  \E i \in 1..Len(calls) : calls[i].op = "navigate" /\ calls[i].ok

AfterReturn == {"returned", "finally", "outer_finally", "done"}

AnnouncedOnce ==
  /\ Cardinality(EventsOf("Iniciando")) = 1
  /\ events[1].msg.kind = "Acessando"
  /\ events[2].msg.kind = "Iniciando"
  /\ events[2].msg.a = stats.total
  /\ events[2].total = 0

SummarisedOnce ==
  /\ Cardinality(EventsOf("Concluido")) = 1
  /\ events[Len(events)].msg = TextoConcluido(stats)
  /\ events[Len(events)].total = 0
  /\ Len(outcomes) = stats.sucesso + stats.erro

C18_EventOrder ==
  /\ Loaded => AnnouncedOnce
  /\ (EventsOf("Processando") # {} \/ DrivenLines # {}) => Loaded
  /\ EventsOf("Concluido") # {} => pc \in AfterReturn
  /\ (pc \in AfterReturn /\ Loaded) => SummarisedOnce

\* C18 as first stated: in every run whose navigation succeeds
C18_EveryNavigatedRun ==
  (pc = "returned" /\ NavigationOk) => (AnnouncedOnce /\ SummarisedOnce)

\* a run of two rows, one submitted and one failed, was summarised
C18_Witness ==
  /\ pc = "returned"
  /\ Loaded
  /\ events[Len(events)].msg = [kind |-> "Concluido", a |-> 1, b |-> 1]
  /\ Cardinality(EventsOf("Processando")) = 2

(***************************************************************************)
(* C19  At most one batch at a time: no worker thread is started while an  *)
(* earlier worker is still inside processar_planilha.                      *)
(***************************************************************************)
InProcessar == {"navigate", "load", "loop"} \cup DriveSteps

C19_OneBatchAtATime == ~(threads > 1 /\ pc \in InProcessar)

(***************************************************************************)
(* C20  The failure list matches the failure counter.  In every state of   *)
(* the per-row loop, and at the return of a run with no critical failure,  *)
(* there are erro failure entries, in strictly increasing linha (so at     *)
(* most one per row).                                                      *)
(***************************************************************************)
NoCriticalFailure == EntriesAt(0) = {}

C20_ListMatchesCounter ==
  ((pc \in {"loop"} \cup DriveSteps \/ pc = "returned") /\ NoCriticalFailure)
    => /\ Len(Entries) = stats.erro
       /\ \A i \in 1..Len(Entries) : \A j \in (i + 1)..Len(Entries) :
            Entries[i].linha < Entries[j].linha

\* two rows failed, one in validation and one in the browser
C20_Witness ==
  /\ pc = "returned"
  /\ NoCriticalFailure
  /\ stats.erro = 2
  /\ FailedDriveLines # {}
  /\ Entries[1].erro = MsgCamposVazios


(***************************************************************************)
(* C21  Progress counters stay in range.  Every progress event with        *)
(* total > 0 has 1 <= current <= total, with total the number of rows      *)
(* read; current grows strictly from one such event to the next; and the   *)
(* percentage the sink derives from it never exceeds 100.                  *)
(***************************************************************************)
\* the sink's percentage, current / total * 100, in whole percent
Percentage(current, total) == (current * 100) \div total

IsQuantitative(e) == e.total > 0

QuantitativeEvents == SelectSeq(events, IsQuantitative)

C21_ProgressInRange ==
  LET q == QuantitativeEvents IN
    /\ \A i \in 1..Len(q) :
         /\ 1 <= q[i].current
         /\ q[i].current <= q[i].total
         /\ q[i].total = Len(rows)
         /\ Percentage(q[i].current, q[i].total) <= 100
    /\ \A i \in 1..(Len(q) - 1) : q[i].current < q[i + 1].current

\* a blank row was skipped, the next row was announced and reached 100%
C21_Witness ==
  /\ pc = "returned"
  /\ Len(sheet) = 3
  /\ IsBlank(sheet[2].cells)
  /\ Len(QuantitativeEvents) = 1
  /\ QuantitativeEvents[1].current = 2
  /\ Percentage(QuantitativeEvents[1].current, QuantitativeEvents[1].total) = 100

=============================================================================
